---- MODULE Spec2Model ----
(***************************************************************************)
(* Retrieval-augmented query pipeline of BOM_RAG (src/src/rag_pipeline.py) *)
(* as a state machine: one process running RAGPipeline.query against a     *)
(* persisted Chroma collection, and one process running build_index        *)
(* against the same persist directory.                                     *)
(*                                                                         *)
(* Numbers that stand for floats are integer hundredths: a distance of 65  *)
(* is 0.65, a confidence of 62 is 0.62.  Strings built by f-strings are    *)
(* sequences of their parts.                                               *)
(*                                                                         *)
(* Further specifications over the same variables take one part of the     *)
(* program alone: the vector store (SpecStore), _calculate_confidence      *)
(* (SpecScore, SpecScorePair), TextChunker (SpecChunk, SpecLabel),         *)
(* DataConsolidator (SpecConsolidate), query with pending calls            *)
(* (SpecLive), the scraper's retry loop (SpecRequest), the commands of     *)
(* main.py (SpecCli) and the chat script of app.py (SpecChat).             *)
(***************************************************************************)
EXTENDS Integers, Sequences, FiniteSets, TLC

VARIABLES
    store,            \* entries of the collection "loan_products", in insertion order
    collExists,       \* whether the collection exists in the persist directory
    top_k,            \* RAGPipeline.top_k
    qpc,              \* position of the query process inside RAGPipeline.query
    question,         \* argument of the running / last query
    query_embedding,  \* local of query
    search_results,   \* local of query
    context,          \* local of query
    answer,           \* local of query
    llm_error,        \* exception caught inside generate_answer, "none" if none
    response,         \* value returned by query
    error,            \* exception that left query, "none" if none
    trace,            \* stages the running / last query has executed, in order
    bpc,              \* position of the build process inside build_index
    chunks,           \* local of build_index: the loaded chunk manifest
    embeddings,       \* local of build_index
    oldStore,         \* history: the collection's entries when the build started
    pending,          \* the call of query that has been made and has not returned
    handleLive,       \* whether ChromaVectorStore.collection names the live collection
    lastOp,           \* history: the last operation on the vector store and its outcome
    prevBatch,        \* history: the chunks of the add before the last operation
    storeBefore,      \* history: the collection's entries before the last operation
    fpc,              \* position of a run of one function: "called" or "returned"
    input,            \* argument of the function
    output,           \* its result
    rpc,              \* position of a run of _make_request
    max_retries,      \* BankOfMaharashtraScraper.max_retries
    attempt,          \* loop variable of _make_request
    fetches,          \* history: the calls of session.get made by the run
    sleeps,           \* history: the calls of time.sleep made by the run
    result,           \* what _make_request returned
    fs,               \* the data files and the index directory
    apiKey,           \* whether OPENAI_API_KEY is set
    lastCmd,          \* history: the last CLI command and what it did
    messages,         \* st.session_state.messages
    upc,              \* position of the run of the chat script
    prompt,           \* the prompt the run of the chat script handles
    rerun,            \* the prompt submitted while the script runs
    reply,            \* locals of the run: response and sources, or error_msg
    submitted         \* history: the number of prompts submitted

qvars == <<top_k, qpc, question, query_embedding, search_results, context,
           answer, llm_error, response, error, trace>>
bvars == <<bpc, chunks, embeddings, oldStore>>
svars == <<handleLive, lastOp, prevBatch, storeBefore>>
fvars == <<fpc, input, output>>
xvars == <<pending, svars, fvars>>
rvars == <<rpc, max_retries, attempt, fetches, sleeps, result>>
cvars == <<fs, apiKey, lastCmd>>
uvars == <<messages, upc, prompt, rerun, reply, submitted>>
yvars == <<rvars, cvars, uvars>>
vars == <<store, collExists, qvars, bvars, xvars, yvars>>

----------------------------------------------------------------------------
(* Bounds of the model *)

MaxChunks == 2
MaxTopK == 2
MaxDistances == 3
MaxPairDistances == 2
MaxPieces == 4
LongDocPieces == 10001
MaxPhrases == 2
MaxRecords == 2
MaxRetries == 4
MaxQuestions == 2
MaxPrompts == 3

----------------------------------------------------------------------------
(* Inputs *)

HomeFragment == "Home loan rate is 8.5%."
PersonalFragment == "Personal loan tenure is 5 years."
HomeQuestion == "What is the home loan interest rate?"
TenureQuestion == "What is the personal loan tenure?"
EmptyQuestion == ""

FragmentTexts == {HomeFragment, PersonalFragment}
Questions == {EmptyQuestion, HomeQuestion, TenureQuestion}
\* top_k is an int read from the environment: negative, zero and positive values
TopKs == (0 - 1)..MaxTopK

\* chunk manifests as TextChunker.chunk_text writes them: ids and indexes by position
\* str(i): the decimal digits of i >= 0
RECURSIVE Digits(_)
Digits(i) == IF i < 10 THEN <<i>> ELSE Digits(i \div 10) \o <<i % 10>>

\* the format spec 04d: zeros on the left up to the width, never fewer digits
IdWidth == 4
ZeroPad(ds, w) == IF Len(ds) >= w THEN ds ELSE [k \in 1..(w - Len(ds)) |-> 0] \o ds

\* an id that keeps the last four digits only
ChunkId_fourDigits(i) == <<"chunk_">> \o ZeroPad(Digits(i % 10000), IdWidth)

\* f"chunk_{i:04d}"
ChunkId(i) == <<"chunk_">> \o ZeroPad(Digits(i), IdWidth)

ManifestOf(texts) ==
    [i \in 1..Len(texts) |->
        [chunk_id |-> ChunkId(i - 1),
         text |-> texts[i],
         loan_type |-> IF texts[i] = HomeFragment THEN "Home Loan" ELSE "Personal Loan",
         chunk_index |-> i - 1,
         total_chunks |-> Len(texts)]]

Manifests ==
    {ManifestOf(t) : t \in UNION {[1..n -> FragmentTexts] : n \in 0..MaxChunks}}

\* outcomes of the call to the chat-completions service
LLMOutcomes ==
    {[ok |-> TRUE, text |-> "Home loan rate is 8.5% p.a.", error |-> "none"],
     [ok |-> FALSE, text |-> "", error |-> "Connection error."]}

----------------------------------------------------------------------------
(* Arithmetic helpers *)

Abs(x) == IF x < 0 THEN 0 - x ELSE x
Min(a, b) == IF a < b THEN a ELSE b
Max(a, b) == IF a > b THEN a ELSE b

RECURSIVE Sum(_)
Sum(s) == IF s = <<>> THEN 0 ELSE Head(s) + Sum(Tail(s))

----------------------------------------------------------------------------
(* Text as a sequence of characters; TextChunker *)

\* str.lower() on the letters A to Z
LowerChar(c) ==
    LET upper_to_lower ==
          [A |-> "a", B |-> "b", C |-> "c", D |-> "d", E |-> "e", F |-> "f", G |-> "g",
           H |-> "h", I |-> "i", J |-> "j", K |-> "k", L |-> "l", M |-> "m", N |-> "n",
           O |-> "o", P |-> "p", Q |-> "q", R |-> "r", S |-> "s", T |-> "t", U |-> "u",
           V |-> "v", W |-> "w", X |-> "x", Y |-> "y", Z |-> "z"]
    IN  IF c \in DOMAIN upper_to_lower THEN upper_to_lower[c] ELSE c

Lower(text) == [i \in 1..Len(text) |-> LowerChar(text[i])]

\* the test `keyword in text`
Contains(text, keyword) ==
    \E off \in 0..(Len(text) - Len(keyword)) :
        SubSeq(text, off + 1, off + Len(keyword)) = keyword

\* the keywords the chunk is searched for
Keywords ==
    [home_loan |-> <<"h", "o", "m", "e", " ", "l", "o", "a", "n">>,
     housing_loan |-> <<"h", "o", "u", "s", "i", "n", "g", " ", "l", "o", "a", "n">>,
     car_loan |-> <<"c", "a", "r", " ", "l", "o", "a", "n">>,
     vehicle_loan |-> <<"v", "e", "h", "i", "c", "l", "e", " ", "l", "o", "a", "n">>,
     personal_loan |-> <<"p", "e", "r", "s", "o", "n", "a", "l", " ", "l", "o", "a", "n">>,
     education_loan |-> <<"e", "d", "u", "c", "a", "t", "i", "o", "n", " ", "l", "o", "a", "n">>,
     gold_loan |-> <<"g", "o", "l", "d", " ", "l", "o", "a", "n">>,
     agriculture |-> <<"a", "g", "r", "i", "c", "u", "l", "t", "u", "r", "e">>,
     kisan |-> <<"k", "i", "s", "a", "n">>,
     msme |-> <<"m", "s", "m", "e">>,
     business |-> <<"b", "u", "s", "i", "n", "e", "s", "s">>,
     interest_rate |-> <<"i", "n", "t", "e", "r", "e", "s", "t", " ", "r", "a", "t", "e">>]

\* a labelling that tests for a personal loan before a home loan
ExtractLoanType_personalFirst(chunk) ==
    LET chunk_lower == Lower(chunk)
    IN  IF Contains(chunk_lower, Keywords.personal_loan)
            THEN "Personal Loan"
        ELSE IF Contains(chunk_lower, Keywords.home_loan) \/ Contains(chunk_lower, Keywords.housing_loan)
            THEN "Home Loan"
        ELSE IF Contains(chunk_lower, Keywords.car_loan) \/ Contains(chunk_lower, Keywords.vehicle_loan)
            THEN "Vehicle Loan"
        ELSE IF Contains(chunk_lower, Keywords.education_loan)
            THEN "Education Loan"
        ELSE IF Contains(chunk_lower, Keywords.gold_loan)
            THEN "Gold Loan"
        ELSE IF Contains(chunk_lower, Keywords.agriculture) \/ Contains(chunk_lower, Keywords.kisan)
            THEN "Agriculture Loan"
        ELSE IF Contains(chunk_lower, Keywords.msme) \/ Contains(chunk_lower, Keywords.business)
            THEN "MSME Loan"
        ELSE IF Contains(chunk_lower, Keywords.interest_rate)
            THEN "Interest Rates"
        ELSE "General"

\* TextChunker._extract_loan_type_from_chunk
ExtractLoanType(chunk) ==
    LET chunk_lower == Lower(chunk)
    IN  IF Contains(chunk_lower, Keywords.home_loan) \/ Contains(chunk_lower, Keywords.housing_loan)
            THEN "Home Loan"
        ELSE IF Contains(chunk_lower, Keywords.car_loan) \/ Contains(chunk_lower, Keywords.vehicle_loan)
            THEN "Vehicle Loan"
        ELSE IF Contains(chunk_lower, Keywords.personal_loan)
            THEN "Personal Loan"
        ELSE IF Contains(chunk_lower, Keywords.education_loan)
            THEN "Education Loan"
        ELSE IF Contains(chunk_lower, Keywords.gold_loan)
            THEN "Gold Loan"
        ELSE IF Contains(chunk_lower, Keywords.agriculture) \/ Contains(chunk_lower, Keywords.kisan)
            THEN "Agriculture Loan"
        ELSE IF Contains(chunk_lower, Keywords.msme) \/ Contains(chunk_lower, Keywords.business)
            THEN "MSME Loan"
        ELSE IF Contains(chunk_lower, Keywords.interest_rate)
            THEN "Interest Rates"
        ELSE "General"

\* TextChunker.chunk_text after self.splitter.split_text(text) returned pieces
ChunkText(pieces) ==
    [p \in 1..Len(pieces) |->
        [chunk_id |-> ChunkId(p - 1),
         text |-> pieces[p],
         loan_type |-> ExtractLoanType(pieces[p]),
         chunk_index |-> p - 1,
         total_chunks |-> Len(pieces)]]

\* phrases that chunks are made of: the keywords in several spellings, and
\* words that are part of a keyword only
PhraseHomeLoan == <<"H", "o", "m", "e", " ", "L", "o", "a", "n">>
PhraseKisanUpper == <<"K", "I", "S", "A", "N">>
PhraseLoanLower == <<"l", "o", "a", "n">>

Phrases ==
    {PhraseHomeLoan,
     <<"H", "O", "U", "S", "I", "N", "G", " ", "L", "O", "A", "N">>,
     <<"c", "a", "r", " ", "l", "o", "a", "n">>,
     <<"V", "e", "h", "i", "c", "l", "e", " ", "L", "o", "a", "n">>,
     <<"P", "e", "r", "s", "o", "n", "a", "l", " ", "L", "o", "a", "n">>,
     <<"e", "d", "u", "c", "a", "t", "i", "o", "n", " ", "l", "o", "a", "n">>,
     <<"G", "o", "l", "d", " ", "L", "o", "a", "n">>,
     <<"A", "g", "r", "i", "c", "u", "l", "t", "u", "r", "e">>,
     PhraseKisanUpper,
     <<"m", "s", "m", "e">>,
     <<"B", "u", "s", "i", "n", "e", "s", "s">>,
     <<"I", "n", "t", "e", "r", "e", "s", "t", " ", "R", "a", "t", "e">>,
     PhraseLoanLower,
     <<"h", "o", "m", "e">>,
     <<"R", "a", "t", "e">>}

\* the texts of up to n phrases separated by one space
RECURSIVE PhraseTexts(_)
PhraseTexts(n) ==
    IF n = 0 THEN {<<>>}
    ELSE PhraseTexts(n - 1)
         \cup {IF t = <<>> THEN ph ELSE t \o <<" ">> \o ph :
                  t \in PhraseTexts(n - 1), ph \in Phrases}

\* what split_text returns: short lists of pieces, and one long document
PieceTexts == {PhraseHomeLoan, PhraseLoanLower, PhraseKisanUpper}
LongDocument == [p \in 1..LongDocPieces |-> PhraseLoanLower]
PieceLists == UNION {[1..m -> PieceTexts] : m \in 0..MaxPieces} \cup {LongDocument}

----------------------------------------------------------------------------
(* DataCleaner and DataConsolidator: text as a sequence of lines, a document *)
(* as the sequence of the parts appended to it                               *)

\* dict.get(key, default)
Get(d, key, default) == IF key \in DOMAIN d THEN d[key] ELSE default

RECURSIVE Concat(_)
Concat(ss) == IF ss = <<>> THEN <<>> ELSE Head(ss) \o Concat(Tail(ss))

NoiseLine == [text |-> "Follow us on Twitter"]
BlankLine == [text |-> "   "]
InfoLine(i) == [text |-> "EMI starts at Rs. 1,000.", page |-> i]
HtmlInfoLine(i) == [text |-> "Tenure up to 30 years.", page |-> i]

\* DataCleaner.clean_html: the text of the elements that are not decomposed
CleanHtml(html_content) ==
    LET Kept(el) == el.tag \notin {"script", "style", "nav", "footer", "header", "aside"}
        kept == SelectSeq(html_content, Kept)
    IN  [k \in 1..Len(kept) |-> kept[k].line]

\* DataCleaner.remove_noise: a line that is a noise pattern goes with its newline
RemoveNoise(text) ==
    LET NotNoise(l) == l # NoiseLine
    IN  SelectSeq(text, NotNoise)

\* DataCleaner.normalize_text: lines are stripped and the empty ones dropped
NormalizeText(text) ==
    LET NotBlank(l) == l # BlankLine
    IN  SelectSeq(text, NotBlank)

\* DataCleaner.clean_text
CleanText(text) == NormalizeText(RemoveNoise(text))

\* the test `not item.get('success', False)`
Unsuccessful(item) == ~Get(item, "success", FALSE)

\* sorted() on the loan types that occur
LoanTypeOrder == <<"Home Loan", "Other Loans", "Personal Loan">>

\* a grouping of every record, successful or not
StructureByProduct_all(data) ==
    LET TypeOf(item) == Get(item, "loan_type", "Other Loans")
        Occurs_(t) == \E k \in 1..Len(data) : TypeOf(data[k]) = t
        types == SelectSeq(LoanTypeOrder, Occurs_)
    IN  [g \in 1..Len(types) |->
            LET OfType(item) == TypeOf(item) = types[g]
            IN  [loan_type |-> types[g], loans |-> SelectSeq(data, OfType)]]

\* DataConsolidator.structure_by_product: the successful records grouped by
\* loan type, groups in sorted order, records in input order
StructureByProduct(data) ==
    LET Successful(item) == ~Unsuccessful(item)
        successful == SelectSeq(data, Successful)
        TypeOf(item) == Get(item, "loan_type", "Other Loans")
        Occurs_(t) == \E k \in 1..Len(successful) : TypeOf(successful[k]) = t
        types == SelectSeq(LoanTypeOrder, Occurs_)
    IN  [g \in 1..Len(types) |->
            LET OfType(item) == TypeOf(item) = types[g]
            IN  [loan_type |-> types[g], loans |-> SelectSeq(successful, OfType)]]

\* the content of a record as consolidate_loan_data cleans it
CleanedContent(loan) ==
    CleanText(IF Get(loan, "raw_html", <<>>) # <<>>
              THEN CleanHtml(loan.raw_html)
              ELSE Get(loan, "content", <<>>))

\* the parts consolidate_loan_data appends for one record of a group
LoanParts(loan) ==
    IF Unsuccessful(loan) THEN <<>>
    ELSE LET content == CleanedContent(loan)
         IN  IF content # <<>>
             THEN <<[kind |-> "h3", loan_name |-> Get(loan, "loan_name", "Unknown Loan")],
                    [kind |-> "content", content |-> content],
                    [kind |-> "source", url |-> Get(loan, "url", "N/A")],
                    [kind |-> "rule"]>>
             ELSE <<>>

\* DataConsolidator.consolidate_loan_data
ConsolidateLoanData(raw_data) ==
    LET grouped_data == StructureByProduct(raw_data)
    IN  <<[kind |-> "h1"], [kind |-> "intro"]>>
        \o Concat([g \in 1..Len(grouped_data) |->
                     <<[kind |-> "h2", loan_type |-> grouped_data[g].loan_type]>>
                     \o Concat([k \in 1..Len(grouped_data[g].loans) |->
                                  LoanParts(grouped_data[g].loans[k])])])

\* scraped records: the i-th has its own name, url and lines; success and
\* loan_type may be missing; raw_html may be missing and content may be noise
PageFields(i) ==
    {[content |-> <<InfoLine(i), NoiseLine>>],
     [content |-> <<NoiseLine, BlankLine>>],
     [content |-> <<InfoLine(i)>>,
      raw_html |-> <<[tag |-> "p", line |-> HtmlInfoLine(i)],
                     [tag |-> "script", line |-> InfoLine(i)]>>],
     [content |-> <<InfoLine(i)>>,
      raw_html |-> <<[tag |-> "nav", line |-> HtmlInfoLine(i)]>>]}

LoanName(i) == <<"Loan ", i>>
LoanUrl(i) == <<"https://bankofmaharashtra.in/loan-", i>>

RecordsAt(i) ==
    {[loan_name |-> LoanName(i), url |-> LoanUrl(i)] @@ sf @@ tf @@ pf :
        sf \in {<<>>, [success |-> TRUE], [success |-> FALSE]},
        tf \in {<<>>, [loan_type |-> "Personal Loan"], [loan_type |-> "Home Loan"]},
        pf \in PageFields(i)}

RECURSIVE RecordLists(_)
RecordLists(n) ==
    IF n = 0 THEN {<<>>}
    ELSE RecordLists(n - 1)
         \cup {Append(rs, r) : rs \in {l \in RecordLists(n - 1) : Len(l) = n - 1},
                               r \in RecordsAt(n)}

----------------------------------------------------------------------------
(* EmbeddingManager: a deterministic stand-in for the sentence transformer, *)
(* vectors of dimension one, in hundredths                                  *)

EmbedText(text) ==
    CASE text = HomeFragment -> 0
      [] text = PersonalFragment -> 75
      [] text = HomeQuestion -> 15
      [] text = TenureQuestion -> 190
      [] OTHER -> 40

EmbedBatch(texts) == [i \in 1..Len(texts) |-> EmbedText(texts[i])]

\* the collection's distance between two vectors
Distance(a, b) == Abs(a - b)

----------------------------------------------------------------------------
(* The Chroma collection as ChromaVectorStore uses it *)

\* an add that appends every entry, whether or not its id is stored already
CollectionAdd_append(coll, ids, embs, documents, metadatas) ==
    coll \o [i \in 1..Len(ids) |->
                [id |-> ids[i], embedding |-> embs[i],
                 document |-> documents[i], metadata |-> metadatas[i]]]

\* collection.add(ids, embeddings, documents, metadatas): the entries whose id is
\* not stored yet are appended in order; an entry whose id is stored is ignored
CollectionAdd(coll, ids, embs, documents, metadatas) ==
    LET entries == [i \in 1..Len(ids) |->
                      [id |-> ids[i], embedding |-> embs[i],
                       document |-> documents[i], metadata |-> metadatas[i]]]
        IsNew(e) == \A j \in 1..Len(coll) : coll[j].id # e.id
    IN  coll \o SelectSeq(entries, IsNew)

\* ChromaVectorStore.add_documents
AddDocuments(coll, chs, embs) ==
    LET ids == [i \in 1..Len(chs) |-> chs[i].chunk_id]
        documents == [i \in 1..Len(chs) |-> chs[i].text]
        metadatas == [i \in 1..Len(chs) |->
                        [loan_type |-> chs[i].loan_type,
                         chunk_index |-> chs[i].chunk_index]]
    IN  CollectionAdd(coll, ids, embs, documents, metadatas)

\* indexes of S by ascending distance, ties in insertion order
RECURSIVE NearestFirst(_, _)
NearestFirst(d, S) ==
    IF S = {} THEN <<>>
    ELSE LET m == CHOOSE i \in S :
                    \A j \in S : d[i] < d[j] \/ (d[i] = d[j] /\ i <= j)
         IN  <<m>> \o NearestFirst(d, S \ {m})

\* collection.query(query_embeddings=[q], n_results=k): one result list per query
CollectionQuery(coll, q, k) ==
    LET d == [i \in 1..Len(coll) |-> Distance(q, coll[i].embedding)]
        order == NearestFirst(d, 1..Len(coll))
        n == Min(Max(k, 0), Len(coll))
    IN  [documents |-> << [i \in 1..n |-> coll[order[i]].document] >>,
         distances |-> << [i \in 1..n |-> d[order[i]]] >>,
         metadatas |-> << [i \in 1..n |-> coll[order[i]].metadata] >>]

\* a search that forgets n_results and returns every entry
VectorStoreSearch_all(coll, q, k) ==
    LET results == CollectionQuery(coll, q, Len(coll))
    IN  [documents |-> results.documents[1],
         distances |-> results.distances[1],
         metadatas |-> results.metadatas[1]]

\* ChromaVectorStore.search
VectorStoreSearch(coll, q, k) ==
    LET results == CollectionQuery(coll, q, k)
    IN  [documents |-> IF results.documents # <<>> THEN results.documents[1] ELSE <<>>,
         distances |-> IF results.distances # <<>> THEN results.distances[1] ELSE <<>>,
         metadatas |-> IF results.metadatas # <<>> THEN results.metadatas[1] ELSE <<>>]

\* collection.count()
Count(coll) == Len(coll)

----------------------------------------------------------------------------
(* LLMClient and the pure parts of RAGPipeline *)

NoInformationAnswer == <<"I couldn't find relevant information to answer your question.">>
ApologyPrefix == "I apologize, but I encountered an error: "

\* a generate_answer whose except clause returns the empty completion
GenerateAnswer_silent(q, ctx, outcome) == <<outcome.text>>

\* LLMClient.generate_answer: the except clause turns a failure into an answer
GenerateAnswer(q, ctx, outcome) ==
    IF outcome.ok THEN <<outcome.text>> ELSE <<ApologyPrefix, outcome.error>>

\* RAGPipeline._build_context: "[Source i]\n<doc>\n" parts, in order
BuildContext(sr) ==
    [i \in 1..Len(sr.documents) |-> <<"[Source ", i, "]", sr.documents[i]>>]

\* a rounding that drops the digits after the second decimal
RoundHalfEven_floor(num, den) == num \div den

\* round(x, 2) of the hundredths num / den: to the nearest, a tie to the even one
RoundHalfEven(num, den) ==
    LET q == num \div den
        r == num % den
    IN  IF 2 * r < den THEN q
        ELSE IF 2 * r > den THEN q + 1
        ELSE IF q % 2 = 0 THEN q ELSE q + 1

\* a confidence without max(0.0, min(1.0, ...))
CalculateConfidence_noClamp(distances) ==
    IF distances = <<>> THEN 0
    ELSE RoundHalfEven(100 * Len(distances) - Sum(distances), Len(distances))

\* a confidence that grows with the average distance
CalculateConfidence_inverted(distances) ==
    IF distances = <<>> THEN 0
    ELSE LET n == Len(distances)
             num == Sum(distances)
         IN  IF num <= 0 THEN 0
             ELSE IF num >= 100 * n THEN 100
             ELSE RoundHalfEven(num, n)

\* RAGPipeline._calculate_confidence, distances and result in hundredths
CalculateConfidence(distances) ==
    IF distances = <<>> THEN 0
    ELSE LET n == Len(distances)
             num == 100 * n - Sum(distances)      \* (1.0 - avg_distance) * n
         IN  IF num <= 0 THEN 0
             ELSE IF num >= 100 * n THEN 100
             ELSE RoundHalfEven(num, n)

\* a test that never takes the short-circuit
IsEmptyResult_never(sr) == FALSE

\* the test `not search_results['documents']`
IsEmptyResult(sr) == sr.documents = <<>>

\* the dict returned when nothing was found
EmptyResponse(q) ==
    [question |-> q, answer |-> NoInformationAnswer, sources |-> <<>>, confidence |-> 0]

\* a composition that loses the best-ranked fragment
ComposeResponse_dropFirst(q, ans, sr) ==
    [question |-> q, answer |-> ans, sources |-> Tail(sr.documents),
     metadata |-> sr.metadatas, distances |-> sr.distances,
     confidence |-> CalculateConfidence(sr.distances)]

\* the dict composed after generation
ComposeResponse(q, ans, sr) ==
    [question |-> q, answer |-> ans, sources |-> sr.documents,
     metadata |-> sr.metadatas, distances |-> sr.distances,
     confidence |-> CalculateConfidence(sr.distances)]

----------------------------------------------------------------------------
(* Values of locals that are not set *)

NoResults == [unset |-> TRUE]
NoResponse == [unset |-> TRUE]
NoVector == <<>>

QueryLocalsReset ==
    /\ query_embedding' = NoVector
    /\ search_results' = NoResults
    /\ context' = <<>>
    /\ answer' = <<>>
    /\ llm_error' = "none"
    /\ response' = NoResponse
    /\ error' = "none"
    /\ trace' = <<>>

\* values of the variables a specification does not use
NoCallPending == pending = "none"
NoBatch == [unset |-> TRUE]
StoreHistoryUnused ==
    /\ handleLive = TRUE
    /\ lastOp = [op |-> "none"]
    /\ prevBatch = NoBatch
    /\ storeBefore = <<>>
FunctionUnused ==
    /\ fpc = "unused"
    /\ input = <<>>
    /\ output = <<>>

NoFile == [absent |-> TRUE]
NoCommand == [cmd |-> "none"]
NoPrompt == [unset |-> TRUE]

RequestUnused ==
    /\ rpc = "unused"
    /\ max_retries = 0
    /\ attempt = 0
    /\ fetches = <<>>
    /\ sleeps = <<>>
    /\ result = [value |-> "unset"]

CliUnused ==
    /\ fs = [scraped_data |-> FALSE, knowledge_base |-> FALSE,
             chunks |-> NoFile, chroma_db |-> FALSE]
    /\ apiKey = FALSE
    /\ lastCmd = NoCommand

ChatUnused ==
    /\ messages = <<>>
    /\ upc = "unused"
    /\ prompt = NoPrompt
    /\ rerun = NoPrompt
    /\ reply = NoPrompt
    /\ submitted = 0

OthersUnused == RequestUnused /\ CliUnused /\ ChatUnused

QueryAtRest == qpc \in {"idle", "done", "failed"}
BuildAtRest == bpc \in {"idle", "done", "failed"}

----------------------------------------------------------------------------
(* The query process *)

\* cmd_query / cmd_demo: ChromaVectorStore(persist_directory) gets or creates the
\* collection, RAGPipeline(..., top_k) stores top_k unchecked
NewPipeline ==
    /\ QueryAtRest
    /\ \E k \in TopKs : top_k' = k
    /\ collExists' = TRUE
    /\ qpc' = "idle"
    /\ question' = EmptyQuestion
    /\ QueryLocalsReset
    /\ UNCHANGED <<store, bvars, xvars>>
    /\ UNCHANGED yvars

\* a caller invokes rag_pipeline.query(question)
Ask ==
    /\ QueryAtRest
    /\ \E q \in Questions : question' = q
    /\ qpc' = "EMBED_QUERY"
    /\ QueryLocalsReset
    /\ UNCHANGED <<store, collExists, top_k, bvars, xvars>>
    /\ UNCHANGED yvars

\* 1. query_embedding = self.embedding_manager.embed_text(question)
EmbedQuery ==
    /\ qpc = "EMBED_QUERY"
    /\ trace' = Append(trace, "EMBED_QUERY")
    /\ \/ /\ query_embedding' = EmbedText(question)
          /\ qpc' = "SEARCH"
          /\ error' = "none"
       \/ /\ query_embedding' = query_embedding
          /\ qpc' = "failed"
          /\ error' = "EmbedderException"
    /\ UNCHANGED <<store, collExists, top_k, question, search_results, context,
                   answer, llm_error, response, bvars, svars, fvars>>
    /\ pending' = "none"
    /\ UNCHANGED yvars

\* a search that drops the collection's entries when the index call raises
Search_resets ==
    /\ qpc = "SEARCH"
    /\ trace' = Append(trace, "SEARCH")
    /\ \/ /\ collExists
          /\ search_results' = VectorStoreSearch(store, query_embedding, top_k)
          /\ qpc' = IF IsEmptyResult(search_results') THEN "EMPTY_RESULT"
                    ELSE "BUILD_CONTEXT"
          /\ error' = "none"
          /\ store' = store
       \/ /\ search_results' = search_results
          /\ qpc' = "failed"
          /\ error' = "ChromaException"
          /\ store' = <<>>
    /\ UNCHANGED <<collExists, top_k, question, query_embedding, context,
                   answer, llm_error, response, bvars, svars, fvars>>
    /\ pending' = "none"
    /\ UNCHANGED yvars

\* 2. search_results = self.vector_store.search(query_embedding, k=self.top_k),
\*    then the branch on `not search_results['documents']`.  search checks nothing
\*    itself: the call either returns the library's result or raises the library's
\*    exception (collection deleted under the handle, storage unreadable, an
\*    n_results the library refuses), and both outcomes are open for every k.
Search ==
    /\ qpc = "SEARCH"
    /\ trace' = Append(trace, "SEARCH")
    /\ \/ /\ collExists
          /\ search_results' = VectorStoreSearch(store, query_embedding, top_k)
          /\ qpc' = IF IsEmptyResult(search_results') THEN "EMPTY_RESULT"
                    ELSE "BUILD_CONTEXT"
          /\ error' = "none"
       \/ /\ search_results' = search_results
          /\ qpc' = "failed"
          /\ error' = "ChromaException"
    /\ UNCHANGED <<store, collExists, top_k, question, query_embedding, context,
                   answer, llm_error, response, bvars, svars, fvars>>
    /\ pending' = "none"
    /\ UNCHANGED yvars

\* the short-circuit: the fixed response is built
EmptyResult ==
    /\ qpc = "EMPTY_RESULT"
    /\ trace' = Append(trace, "EMPTY_RESULT")
    /\ response' = EmptyResponse(question)
    /\ qpc' = "RESPOND"
    /\ UNCHANGED <<store, collExists, top_k, question, query_embedding,
                   search_results, context, answer, llm_error, error, bvars, xvars>>
    /\ UNCHANGED yvars

\* a query that composes the response right after the context, without generation
BuildContextStep_skipsSynthesis ==
    /\ qpc = "BUILD_CONTEXT"
    /\ trace' = Append(trace, "BUILD_CONTEXT")
    /\ context' = BuildContext(search_results)
    /\ qpc' = "RESPOND"
    /\ UNCHANGED <<store, collExists, top_k, question, query_embedding,
                   search_results, answer, llm_error, response, error, bvars, xvars>>
    /\ UNCHANGED yvars

\* 3. context = self._build_context(search_results)
BuildContextStep ==
    /\ qpc = "BUILD_CONTEXT"
    /\ trace' = Append(trace, "BUILD_CONTEXT")
    /\ context' = BuildContext(search_results)
    /\ qpc' = "SYNTHESIZE"
    /\ UNCHANGED <<store, collExists, top_k, question, query_embedding,
                   search_results, answer, llm_error, response, error, bvars, xvars>>
    /\ UNCHANGED yvars

\* 4. answer = self.llm_client.generate_answer(question, context)
Synthesize ==
    /\ qpc = "SYNTHESIZE"
    /\ trace' = Append(trace, "SYNTHESIZE")
    /\ \E outcome \in LLMOutcomes :
          /\ answer' = GenerateAnswer(question, context, outcome)
          /\ llm_error' = outcome.error
    /\ qpc' = "RESPOND"
    /\ UNCHANGED <<store, collExists, top_k, question, query_embedding,
                   search_results, context, response, error, bvars, svars, fvars>>
    /\ pending' = "none"
    /\ UNCHANGED yvars

\* 5. the response is composed (when not already the fixed one) and returned
Respond ==
    /\ qpc = "RESPOND"
    /\ trace' = Append(trace, "RESPOND")
    /\ response' = IF response # NoResponse THEN response
                   ELSE ComposeResponse(question, answer, search_results)
    /\ qpc' = "done"
    /\ UNCHANGED <<store, collExists, top_k, question, query_embedding,
                   search_results, context, answer, llm_error, error, bvars, xvars>>
    /\ UNCHANGED yvars


----------------------------------------------------------------------------
(* The build process: build_index(chunks_file, persist_directory) *)

\* chunks = json.load(f); vector_store = ChromaVectorStore(persist_directory)
StartBuild ==
    /\ BuildAtRest
    /\ \E m \in Manifests : chunks' = m
    /\ embeddings' = <<>>
    /\ oldStore' = store
    /\ collExists' = TRUE
    /\ bpc' = "CLEAR_DELETE"
    /\ UNCHANGED <<store, qvars, xvars>>
    /\ UNCHANGED yvars

\* vector_store.clear(), first half: self.client.delete_collection(name)
ClearDelete ==
    /\ bpc = "CLEAR_DELETE"
    /\ IF collExists
       THEN /\ store' = <<>>
            /\ collExists' = FALSE
            /\ bpc' = "CLEAR_CREATE"
       ELSE /\ bpc' = "failed"
            /\ UNCHANGED <<store, collExists>>
    /\ UNCHANGED <<chunks, embeddings, oldStore, qvars, xvars>>
    /\ UNCHANGED yvars

\* vector_store.clear(), second half: self.client.create_collection(name), which
\* raises when a collection of that name exists again
ClearCreate ==
    /\ bpc = "CLEAR_CREATE"
    /\ IF collExists
       THEN bpc' = "failed"
       ELSE bpc' = "EMBED_BATCH"
    /\ collExists' = TRUE
    /\ UNCHANGED <<store, chunks, embeddings, oldStore, qvars, xvars>>
    /\ UNCHANGED yvars

\* embeddings = embedding_manager.embed_batch(texts)
EmbedChunks ==
    /\ bpc = "EMBED_BATCH"
    /\ \/ /\ embeddings' = EmbedBatch([i \in 1..Len(chunks) |-> chunks[i].text])
          /\ bpc' = "ADD_DOCUMENTS"
       \/ /\ embeddings' = embeddings
          /\ bpc' = "failed"
    /\ UNCHANGED <<store, collExists, chunks, oldStore, qvars, xvars>>
    /\ UNCHANGED yvars

\* vector_store.add_documents(chunks, embeddings)
AddChunks ==
    /\ bpc = "ADD_DOCUMENTS"
    /\ \/ /\ collExists
          /\ store' = AddDocuments(store, chunks, embeddings)
          /\ bpc' = "done"
          /\ chunks' = <<>>            \* build_index has returned: its locals are gone
          /\ embeddings' = <<>>
          /\ oldStore' = store'
       \/ /\ store' = store
          /\ bpc' = "failed"
          /\ UNCHANGED <<chunks, embeddings, oldStore>>
    /\ UNCHANGED <<collExists, qvars, xvars>>
    /\ UNCHANGED yvars


----------------------------------------------------------------------------

Init ==
    /\ store = <<>>
    /\ collExists = TRUE
    /\ top_k \in TopKs
    /\ qpc = "idle"
    /\ question = EmptyQuestion
    /\ query_embedding = NoVector
    /\ search_results = NoResults
    /\ context = <<>>
    /\ answer = <<>>
    /\ llm_error = "none"
    /\ response = NoResponse
    /\ error = "none"
    /\ trace = <<>>
    /\ bpc = "idle"
    /\ chunks = <<>>
    /\ embeddings = <<>>
    /\ oldStore = <<>>
    /\ NoCallPending
    /\ StoreHistoryUnused
    /\ FunctionUnused
    /\ OthersUnused

Next ==
    \/ NewPipeline
    \/ Ask
    \/ EmbedQuery
    \/ Search
    \/ EmptyResult
    \/ BuildContextStep
    \/ Synthesize
    \/ Respond
    \/ StartBuild
    \/ ClearDelete
    \/ ClearCreate
    \/ EmbedChunks
    \/ AddChunks

Spec == Init /\ [][Next]_vars

----------------------------------------------------------------------------
(* The vector store alone: one process that owns a ChromaVectorStore and calls *)
(* add_documents, clear and search on it in any order                          *)

StoreReady == lastOp.op # "delete_collection"

StoreHistory ==
    /\ prevBatch' = IF lastOp.op = "add" /\ lastOp.ok
                    THEN [batch |-> lastOp.batch]
                    ELSE NoBatch
    /\ storeBefore' = store

\* vector_store.add_documents(chunks, embed_batch(texts)); collection.add of no
\* entries either raises or does nothing
StoreAdd ==
    /\ StoreReady
    /\ \E m \in Manifests :
          \/ /\ handleLive
             /\ store' = AddDocuments(store, m, EmbedBatch([i \in 1..Len(m) |-> m[i].text]))
             /\ lastOp' = [op |-> "add", ok |-> TRUE, batch |-> m]
          \/ /\ ~handleLive \/ m = <<>>
             /\ store' = store
             /\ lastOp' = [op |-> "add", ok |-> FALSE, batch |-> m]
    /\ StoreHistory
    /\ UNCHANGED <<collExists, handleLive, qvars, bvars, pending, fvars>>
    /\ UNCHANGED yvars

\* vector_store.clear(), first half: self.client.delete_collection(name)
StoreClearDelete ==
    /\ StoreReady
    /\ store' = <<>>
    /\ collExists' = FALSE
    /\ handleLive' = FALSE
    /\ lastOp' = [op |-> "delete_collection"]
    /\ StoreHistory
    /\ UNCHANGED <<qvars, bvars, pending, fvars>>
    /\ UNCHANGED yvars

\* a clear that creates the collection and does not assign it to self.collection
StoreClearCreate_keepsHandle ==
    /\ lastOp.op = "delete_collection"
    /\ collExists' = TRUE
    /\ lastOp' = [op |-> "clear", ok |-> TRUE]
    /\ UNCHANGED <<store, handleLive, prevBatch, storeBefore, qvars, bvars, pending, fvars>>
    /\ UNCHANGED yvars

\* vector_store.clear(), second half: self.collection = self.client.create_collection(name)
StoreClearCreate ==
    /\ lastOp.op = "delete_collection"
    /\ collExists' = TRUE
    /\ handleLive' = TRUE
    /\ lastOp' = [op |-> "clear", ok |-> TRUE]
    /\ UNCHANGED <<store, prevBatch, storeBefore, qvars, bvars, pending, fvars>>
    /\ UNCHANGED yvars

\* vector_store.search(embed_text(q), k)
StoreSearch ==
    /\ StoreReady
    /\ \E q \in Questions, k \in 1..MaxTopK :
          lastOp' = [op |-> "search", ok |-> handleLive,
                     n |-> IF handleLive
                           THEN Len(VectorStoreSearch(store, EmbedText(q), k).documents)
                           ELSE 0]
    /\ StoreHistory
    /\ UNCHANGED <<store, collExists, handleLive, qvars, bvars, pending, fvars>>
    /\ UNCHANGED yvars

QueryUnused ==
    /\ top_k = 1
    /\ qpc = "idle"
    /\ question = EmptyQuestion
    /\ query_embedding = NoVector
    /\ search_results = NoResults
    /\ context = <<>>
    /\ answer = <<>>
    /\ llm_error = "none"
    /\ response = NoResponse
    /\ error = "none"
    /\ trace = <<>>

BuildUnused ==
    /\ bpc = "idle"
    /\ chunks = <<>>
    /\ embeddings = <<>>
    /\ oldStore = <<>>

InitStore ==
    /\ store = <<>>
    /\ collExists = TRUE
    /\ QueryUnused
    /\ BuildUnused
    /\ NoCallPending
    /\ StoreHistoryUnused
    /\ FunctionUnused
    /\ OthersUnused

NextStore ==
    \/ StoreAdd
    \/ StoreClearDelete
    \/ StoreClearCreate
    \/ StoreSearch

SpecStore == InitStore /\ [][NextStore]_vars

----------------------------------------------------------------------------
(* _calculate_confidence alone, applied to one distance list and to two *)

\* distances in hundredths: below, at and above 1.0, thirds included
Distances == {0, 10, 25, 33, 50, 75, 100, 150}
PairDistances == {0, 33, 50, 100, 150}

SeqsUpTo(S, n) == UNION {[1..m -> S] : m \in 0..n}

DistanceLists == SeqsUpTo(Distances, MaxDistances)
DistanceListPairs ==
    (SeqsUpTo(PairDistances, MaxPairDistances) \ {<<>>})
        \X (SeqsUpTo(PairDistances, MaxPairDistances) \ {<<>>})

StoreUnused ==
    /\ store = <<>>
    /\ collExists = TRUE
    /\ StoreHistoryUnused

\* confidence = self._calculate_confidence(distances)
Score ==
    /\ fpc = "called"
    /\ output' = CalculateConfidence(input)
    /\ fpc' = "returned"
    /\ UNCHANGED <<store, collExists, qvars, bvars, pending, svars, input>>
    /\ UNCHANGED yvars

InitScore ==
    /\ StoreUnused
    /\ QueryUnused
    /\ BuildUnused
    /\ NoCallPending
    /\ fpc = "called"
    /\ input \in DistanceLists
    /\ output = <<>>
    /\ OthersUnused

NextScore == Score

SpecScore == InitScore /\ [][NextScore]_vars

\* two calls of _calculate_confidence, one per list of the pair
ScorePair ==
    /\ fpc = "called"
    /\ output' = <<CalculateConfidence(input[1]), CalculateConfidence(input[2])>>
    /\ fpc' = "returned"
    /\ UNCHANGED <<store, collExists, qvars, bvars, pending, svars, input>>
    /\ UNCHANGED yvars

InitScorePair ==
    /\ StoreUnused
    /\ QueryUnused
    /\ BuildUnused
    /\ NoCallPending
    /\ fpc = "called"
    /\ input \in DistanceListPairs
    /\ output = <<>>
    /\ OthersUnused

NextScorePair == ScorePair

SpecScorePair == InitScorePair /\ [][NextScorePair]_vars

----------------------------------------------------------------------------
(* TextChunker alone: chunk_text on the pieces of a document, and the label *)
(* of one chunk                                                             *)

\* chunked_data = chunker.chunk_text(text)
Chunk ==
    /\ fpc = "called"
    /\ output' = ChunkText(input)
    /\ fpc' = "returned"
    /\ UNCHANGED <<store, collExists, qvars, bvars, pending, svars, input>>
    /\ UNCHANGED yvars

InitChunk ==
    /\ StoreUnused
    /\ QueryUnused
    /\ BuildUnused
    /\ NoCallPending
    /\ fpc = "called"
    /\ input \in PieceLists
    /\ output = <<>>
    /\ OthersUnused

NextChunk == Chunk

SpecChunk == InitChunk /\ [][NextChunk]_vars

\* loan_type = self._extract_loan_type_from_chunk(chunk)
Label ==
    /\ fpc = "called"
    /\ output' = ExtractLoanType(input)
    /\ fpc' = "returned"
    /\ UNCHANGED <<store, collExists, qvars, bvars, pending, svars, input>>
    /\ UNCHANGED yvars

InitLabel ==
    /\ StoreUnused
    /\ QueryUnused
    /\ BuildUnused
    /\ NoCallPending
    /\ fpc = "called"
    /\ input \in PhraseTexts(MaxPhrases)
    /\ output = <<>>
    /\ OthersUnused

NextLabel == Label

SpecLabel == InitLabel /\ [][NextLabel]_vars

----------------------------------------------------------------------------
(* DataConsolidator alone: consolidate_loan_data on a list of scraped records *)

\* consolidated_text = consolidator.consolidate_loan_data(raw_data)
Consolidate ==
    /\ fpc = "called"
    /\ output' = ConsolidateLoanData(input)
    /\ fpc' = "returned"
    /\ UNCHANGED <<store, collExists, qvars, bvars, pending, svars, input>>
    /\ UNCHANGED yvars

InitConsolidate ==
    /\ StoreUnused
    /\ QueryUnused
    /\ BuildUnused
    /\ NoCallPending
    /\ fpc = "called"
    /\ input \in RecordLists(MaxRecords)
    /\ output = <<>>
    /\ OthersUnused

NextConsolidate == Consolidate

SpecConsolidate == InitConsolidate /\ [][NextConsolidate]_vars

----------------------------------------------------------------------------
(* The query process with its outbound calls split into call and return: a  *)
(* call that has been made is pending until the collaborator answers. query *)
(* passes no timeout to embed_text, to collection.query or to the chat      *)
(* completion; the OpenAI client alone gives up by itself, after its        *)
(* default timeout, and raises into the except branch of generate_answer    *)

\* self.embedding_manager.embed_text(question) is entered
CallEmbed ==
    /\ qpc = "EMBED_QUERY"
    /\ pending = "none"
    /\ pending' = "embed_text"
    /\ UNCHANGED <<store, collExists, qvars, bvars, svars, fvars>>
    /\ UNCHANGED yvars

\* model.encode returns or raises
ReturnEmbed ==
    /\ pending = "embed_text"
    /\ EmbedQuery

\* self.vector_store.search(query_embedding, k=self.top_k) is entered
CallSearch ==
    /\ qpc = "SEARCH"
    /\ pending = "none"
    /\ pending' = "search"
    /\ UNCHANGED <<store, collExists, qvars, bvars, svars, fvars>>
    /\ UNCHANGED yvars

\* collection.query returns or raises
ReturnSearch ==
    /\ pending = "search"
    /\ Search

\* self.llm_client.generate_answer(question, context) is entered
CallGenerate ==
    /\ qpc = "SYNTHESIZE"
    /\ pending = "none"
    /\ pending' = "generate_answer"
    /\ UNCHANGED <<store, collExists, qvars, bvars, svars, fvars>>
    /\ UNCHANGED yvars

\* chat.completions.create returns or raises, a client-side timeout included
ReturnGenerate ==
    /\ pending = "generate_answer"
    /\ Synthesize

InitLive ==
    /\ store \in {AddDocuments(<<>>, m, EmbedBatch([i \in 1..Len(m) |-> m[i].text])) :
                    m \in Manifests}
    /\ collExists = TRUE
    /\ top_k \in TopKs
    /\ qpc = "idle"
    /\ question = EmptyQuestion
    /\ query_embedding = NoVector
    /\ search_results = NoResults
    /\ context = <<>>
    /\ answer = <<>>
    /\ llm_error = "none"
    /\ response = NoResponse
    /\ error = "none"
    /\ trace = <<>>
    /\ BuildUnused
    /\ NoCallPending
    /\ StoreHistoryUnused
    /\ FunctionUnused
    /\ OthersUnused

NextLive ==
    \/ Ask
    \/ CallEmbed
    \/ ReturnEmbed
    \/ CallSearch
    \/ ReturnSearch
    \/ EmptyResult
    \/ BuildContextStep
    \/ CallGenerate
    \/ ReturnGenerate
    \/ Respond

\* the steps of query itself are taken when they can be, and the chat completion
\* comes back; nothing makes model.encode or collection.query come back
FairLive ==
    /\ WF_vars(CallEmbed)
    /\ WF_vars(CallSearch)
    /\ WF_vars(EmptyResult)
    /\ WF_vars(BuildContextStep)
    /\ WF_vars(CallGenerate)
    /\ WF_vars(ReturnGenerate)
    /\ WF_vars(Respond)

SpecLive == InitLive /\ [][NextLive]_vars /\ FairLive

----------------------------------------------------------------------------
(* BankOfMaharashtraScraper._make_request alone: the retry loop, one step per *)
(* loop test, fetch and back-off                                              *)

\* what requests raises: from session.get (timeout=30) or from raise_for_status
RequestExceptions == {"Timeout", "ConnectionError", "HTTPError"}

ReturnedNone == [value |-> "None"]
ReturnedResponse(k) == [value |-> "response", attempt |-> k]

\* a test that takes no attempt for the last one
MoreAttemptsLeft_always(a, retries) == TRUE

\* the test `attempt < self.max_retries - 1`
MoreAttemptsLeft(a, retries) == a < retries - 1

\* for attempt in range(self.max_retries): the next attempt, or the loop ends
\* and the function returns None
LoopTest ==
    /\ rpc = "for"
    /\ IF attempt < max_retries
       THEN /\ rpc' = "try"
            /\ result' = result
       ELSE /\ rpc' = "returned"
            /\ result' = ReturnedNone
    /\ UNCHANGED <<max_retries, attempt, fetches, sleeps>>
    /\ UNCHANGED <<store, collExists, qvars, bvars, xvars, cvars, uvars>>

\* session.get and raise_for_status: on success sleep(self.delay) and return the
\* response; on a RequestException go on to the back-off, or return None when
\* this was the last attempt
Fetch ==
    /\ rpc = "try"
    /\ \/ /\ fetches' = Append(fetches, "ok")
          /\ sleeps' = Append(sleeps, [after |-> "response"])
          /\ result' = ReturnedResponse(attempt)
          /\ rpc' = "returned"
       \/ /\ \E e \in RequestExceptions : fetches' = Append(fetches, e)
          /\ sleeps' = sleeps
          /\ IF MoreAttemptsLeft(attempt, max_retries)
             THEN /\ rpc' = "sleep"
                  /\ result' = result
             ELSE /\ rpc' = "returned"
                  /\ result' = ReturnedNone
    /\ UNCHANGED <<max_retries, attempt>>
    /\ UNCHANGED <<store, collExists, qvars, bvars, xvars, cvars, uvars>>

\* wait_time = (attempt + 1) * 2; time.sleep(wait_time); next iteration
BackOff ==
    /\ rpc = "sleep"
    /\ sleeps' = Append(sleeps, [after |-> "failure", wait_time |-> (attempt + 1) * 2])
    /\ attempt' = attempt + 1
    /\ rpc' = "for"
    /\ UNCHANGED <<max_retries, fetches, result>>
    /\ UNCHANGED <<store, collExists, qvars, bvars, xvars, cvars, uvars>>

InitRequest ==
    /\ StoreUnused
    /\ QueryUnused
    /\ BuildUnused
    /\ NoCallPending
    /\ FunctionUnused
    /\ CliUnused
    /\ ChatUnused
    /\ rpc = "for"
    /\ max_retries \in 0..MaxRetries
    /\ attempt = 0
    /\ fetches = <<>>
    /\ sleeps = <<>>
    /\ result = [value |-> "unset"]

NextRequest ==
    \/ LoopTest
    \/ Fetch
    \/ BackOff

\* the run takes its steps; session.get comes back because of its timeout
SpecRequest == InitRequest /\ [][NextRequest]_vars /\ WF_vars(NextRequest)

----------------------------------------------------------------------------
(* The commands of main.py, run one after another on the same working *)
(* directory; each action is one whole command                        *)

\* what a command that returns at its guard has done
Did(cmd) ==
    [cmd |-> cmd, before |-> fs, wrote |-> {}, indexOps |-> <<>>,
     pipeline |-> FALSE, asked |-> <<>>]

\* a test that finds the index directory whether it is there or not
IndexFound_always(f) == TRUE

\* the test os.path.exists(persist_directory)
IndexFound(f) == f.chroma_db

\* the test os.path.exists(chunks_file)
ManifestFound(f) == f.chunks # NoFile

\* cmd_scrape: scrape_loan_products, then save_raw_data writes the file or raises
CmdScrape ==
    /\ \/ /\ fs' = [fs EXCEPT !.scraped_data = TRUE]
          /\ lastCmd' = [Did("scrape") EXCEPT !.wrote = {"data/raw/scraped_data.json"}]
       \/ /\ fs' = fs
          /\ lastCmd' = Did("scrape")
    /\ UNCHANGED <<store, collExists, apiKey, qvars, bvars, xvars, rvars, uvars>>

\* cmd_process: returns when the scraped data is missing; process_data writes
\* the knowledge base and the chunk manifest, or raises while loading
CmdProcess ==
    /\ IF ~fs.scraped_data
       THEN /\ fs' = fs
            /\ lastCmd' = Did("process")
       ELSE \/ \E m \in Manifests :
                 /\ fs' = [fs EXCEPT !.knowledge_base = TRUE, !.chunks = [content |-> m]]
                 /\ lastCmd' = [Did("process") EXCEPT
                                  !.wrote = {"data/processed/knowledge_base.txt",
                                             "data/processed/chunks.json"}]
            \/ /\ fs' = fs
               /\ lastCmd' = Did("process")
    /\ UNCHANGED <<store, collExists, apiKey, qvars, bvars, xvars, rvars, uvars>>

\* cmd_build_index: returns when the chunk manifest is missing; build_index makes
\* the store (directory and collection), clears it, embeds and adds, or raises
\* after the clear
CmdBuildIndex ==
    /\ IF ~ManifestFound(fs)
       THEN /\ UNCHANGED <<fs, store, collExists>>
            /\ lastCmd' = Did("build-index")
       ELSE /\ fs' = [fs EXCEPT !.chroma_db = TRUE]
            /\ collExists' = TRUE
            /\ \/ /\ LET m == fs.chunks.content
                     IN  store' = AddDocuments(<<>>, m,
                                      EmbedBatch([i \in 1..Len(m) |-> m[i].text]))
                  /\ lastCmd' = [Did("build-index") EXCEPT !.indexOps = <<"clear", "add">>]
               \/ /\ store' = <<>>
                  /\ lastCmd' = [Did("build-index") EXCEPT !.indexOps = <<"clear">>]
    /\ UNCHANGED <<apiKey, qvars, bvars, xvars, rvars, uvars>>

\* cmd_query: returns when the key or the index directory is missing; makes the
\* pipeline (ChromaVectorStore makes the directory and the collection) and
\* queries: the questions typed in interactive mode, or the one given as argument
CmdQuery ==
    /\ IF ~apiKey \/ ~IndexFound(fs)
       THEN /\ UNCHANGED <<fs, collExists>>
            /\ lastCmd' = Did("query")
       ELSE /\ fs' = [fs EXCEPT !.chroma_db = TRUE]
            /\ collExists' = TRUE
            /\ \E qs \in UNION {[1..n -> Questions \ {EmptyQuestion}] : n \in 0..MaxQuestions} :
                  lastCmd' = [Did("query") EXCEPT !.pipeline = TRUE, !.asked = qs]
    /\ UNCHANGED <<store, apiKey, qvars, bvars, xvars, rvars, uvars>>

\* test_questions of cmd_demo
DemoQuestions ==
    <<"What are the interest rates for a Bank of Maharashtra home loan?",
      "What is the maximum tenure for a personal loan if my salary account is with the bank?",
      "Tell me about the Maha Super Flexi Housing Loan Scheme.",
      "Are there any processing fee concessions for women or defence personnel on home loans?">>

\* cmd_demo: the guards of cmd_query, then the test questions in order; a query
\* that raises ends the command
CmdDemo ==
    /\ IF ~apiKey \/ ~IndexFound(fs)
       THEN /\ UNCHANGED <<fs, collExists>>
            /\ lastCmd' = Did("demo")
       ELSE /\ fs' = [fs EXCEPT !.chroma_db = TRUE]
            /\ collExists' = TRUE
            /\ \E n \in 1..Len(DemoQuestions) :
                  lastCmd' = [Did("demo") EXCEPT !.pipeline = TRUE,
                                                 !.asked = SubSeq(DemoQuestions, 1, n)]
    /\ UNCHANGED <<store, apiKey, qvars, bvars, xvars, rvars, uvars>>

\* a fresh working directory, OPENAI_API_KEY set or not
InitCli ==
    /\ store = <<>>
    /\ collExists = FALSE
    /\ StoreHistoryUnused
    /\ QueryUnused
    /\ BuildUnused
    /\ NoCallPending
    /\ FunctionUnused
    /\ RequestUnused
    /\ ChatUnused
    /\ fs = [scraped_data |-> FALSE, knowledge_base |-> FALSE,
             chunks |-> NoFile, chroma_db |-> FALSE]
    /\ apiKey \in BOOLEAN
    /\ lastCmd = NoCommand

NextCli ==
    \/ CmdScrape
    \/ CmdProcess
    \/ CmdBuildIndex
    \/ CmdQuery
    \/ CmdDemo

SpecCli == InitCli /\ [][NextCli]_vars

----------------------------------------------------------------------------
(* The chat script of app.py in one browser session.  Streamlit runs main() *)
(* from the top for every submitted prompt; a prompt submitted while a run  *)
(* is in progress is a rerun request, which ends the run at its next st.*   *)
(* call with a RerunException, a BaseException that `except Exception`     *)
(* does not catch, and starts the next run                                  *)

ChatPrompts == {HomeQuestion, TenureQuestion}

\* what rag_pipeline.query(prompt) gives back to the script
ChatResults(p) ==
    {[answer |-> "Home loan rate is 8.5% p.a.", sources |-> <<HomeFragment>>],
     [answer |-> NoInformationAnswer, sources |-> <<>>]}

\* positions whose next statement is a call into streamlit
AtStreamlitCall == upc \in {"show_user", "open_assistant", "show_answer", "show_error", "footer"}

\* a prompt is submitted and no run is in progress: main() runs down to
\* st.chat_input, which returns the prompt
SubmitPrompt ==
    /\ upc = "idle"
    /\ submitted < MaxPrompts
    /\ \E p \in ChatPrompts : prompt' = [text |-> p]
    /\ submitted' = submitted + 1
    /\ upc' = "show_user"
    /\ UNCHANGED <<messages, rerun, reply>>
    /\ UNCHANGED <<store, collExists, qvars, bvars, xvars, rvars, cvars>>

\* a prompt is submitted during a run: the rerun is requested
SubmitDuringRun ==
    /\ upc \notin {"idle", "unused"}
    /\ submitted < MaxPrompts
    /\ \E p \in ChatPrompts : rerun' = [text |-> p]
    /\ submitted' = submitted + 1
    /\ UNCHANGED <<messages, upc, prompt, reply>>
    /\ UNCHANGED <<store, collExists, qvars, bvars, xvars, rvars, cvars>>

\* the next call into streamlit raises RerunException; the run ends there and
\* the next run comes down to st.chat_input with the new prompt
Rerun ==
    /\ AtStreamlitCall
    /\ rerun # NoPrompt
    /\ prompt' = rerun
    /\ rerun' = NoPrompt
    /\ reply' = NoPrompt
    /\ upc' = "show_user"
    /\ UNCHANGED <<messages, submitted>>
    /\ UNCHANGED <<store, collExists, qvars, bvars, xvars, rvars, cvars>>

\* with st.chat_message("user"): st.markdown(prompt)
ShowUser ==
    /\ upc = "show_user"
    /\ rerun = NoPrompt
    /\ upc' = "append_user"
    /\ UNCHANGED <<messages, prompt, rerun, reply, submitted>>
    /\ UNCHANGED <<store, collExists, qvars, bvars, xvars, rvars, cvars>>

\* st.session_state.messages.append({"role": "user", "content": prompt})
AppendUser ==
    /\ upc = "append_user"
    /\ messages' = Append(messages, [role |-> "user", content |-> prompt.text])
    /\ upc' = "open_assistant"
    /\ UNCHANGED <<prompt, rerun, reply, submitted>>
    /\ UNCHANGED <<store, collExists, qvars, bvars, xvars, rvars, cvars>>

\* with st.chat_message("assistant"): with st.spinner("Thinking..."):
OpenAssistant ==
    /\ upc = "open_assistant"
    /\ rerun = NoPrompt
    /\ upc' = "query"
    /\ UNCHANGED <<messages, prompt, rerun, reply, submitted>>
    /\ UNCHANGED <<store, collExists, qvars, bvars, xvars, rvars, cvars>>

\* result = rag_pipeline.query(prompt), response and sources taken from it; or
\* query raises and error_msg is built
ChatQuery ==
    /\ upc = "query"
    /\ \/ /\ \E r \in ChatResults(prompt.text) :
                reply' = [role |-> "assistant", content |-> r.answer, sources |-> r.sources]
          /\ upc' = "show_answer"
       \/ /\ \E e \in {"Connection error."} :
                reply' = [role |-> "assistant",
                          content |-> <<"Sorry, I encountered an error: ", e>>]
          /\ upc' = "show_error"
    /\ UNCHANGED <<messages, prompt, rerun, submitted>>
    /\ UNCHANGED <<store, collExists, qvars, bvars, xvars, rvars, cvars>>

\* st.markdown(response) and the sources expander
ShowAnswer ==
    /\ upc = "show_answer"
    /\ rerun = NoPrompt
    /\ upc' = "append_answer"
    /\ UNCHANGED <<messages, prompt, rerun, reply, submitted>>
    /\ UNCHANGED <<store, collExists, qvars, bvars, xvars, rvars, cvars>>

\* st.error(error_msg)
ShowError ==
    /\ upc = "show_error"
    /\ rerun = NoPrompt
    /\ upc' = "append_answer"
    /\ UNCHANGED <<messages, prompt, rerun, reply, submitted>>
    /\ UNCHANGED <<store, collExists, qvars, bvars, xvars, rvars, cvars>>

\* st.session_state.messages.append of the assistant message, in the try
\* branch or in the except branch
AppendAssistant ==
    /\ upc = "append_answer"
    /\ messages' = Append(messages, reply)
    /\ upc' = "footer"
    /\ UNCHANGED <<prompt, rerun, reply, submitted>>
    /\ UNCHANGED <<store, collExists, qvars, bvars, xvars, rvars, cvars>>

\* st.divider(), st.caption(...): the run ends
Footer ==
    /\ upc = "footer"
    /\ rerun = NoPrompt
    /\ upc' = "idle"
    /\ prompt' = NoPrompt
    /\ reply' = NoPrompt
    /\ UNCHANGED <<messages, rerun, submitted>>
    /\ UNCHANGED <<store, collExists, qvars, bvars, xvars, rvars, cvars>>

\* a new session: 'messages' is not in st.session_state and is set to []
InitChat ==
    /\ StoreUnused
    /\ QueryUnused
    /\ BuildUnused
    /\ NoCallPending
    /\ FunctionUnused
    /\ RequestUnused
    /\ CliUnused
    /\ messages = <<>>
    /\ upc = "idle"
    /\ prompt = NoPrompt
    /\ rerun = NoPrompt
    /\ reply = NoPrompt
    /\ submitted = 0

NextChat ==
    \/ SubmitPrompt
    \/ SubmitDuringRun
    \/ Rerun
    \/ ShowUser
    \/ AppendUser
    \/ OpenAssistant
    \/ ChatQuery
    \/ ShowAnswer
    \/ ShowError
    \/ AppendAssistant
    \/ Footer

SpecChat == InitChat /\ [][NextChat]_vars

----------------------------------------------------------------------------
(* Properties *)

Range(s) == {s[i] : i \in 1..Len(s)}
IsPrefix(s, t) == Len(s) <= Len(t) /\ SubSeq(t, 1, Len(s)) = s

SearchReturned == search_results # NoResults
LLMCalled == "SYNTHESIZE" \in Range(trace)

\* C1: whenever the search of a query returned zero fragments, the query does not
\* fail, the generative service is not called during it, and the response it
\* returns is the fixed one: the no-information answer, no sources, confidence 0.0.
C1_EmptyResultShortCircuit ==
    (SearchReturned /\ search_results.documents = <<>>) =>
        /\ ~LLMCalled
        /\ answer = <<>>
        /\ llm_error = "none"
        /\ qpc \in {"EMPTY_RESULT", "RESPOND", "done"}
        /\ error = "none"
        /\ qpc = "done" =>
              response = [question |-> question,
                          answer |-> NoInformationAnswer,
                          sources |-> <<>>,
                          confidence |-> 0]

\* a query with a positive top_k has returned after a search that found nothing
C1_Witness ==
    /\ qpc = "done"
    /\ top_k >= 1
    /\ search_results.documents = <<>>
    /\ response.confidence = 0
    /\ response.sources = <<>>

\* C2: when the generative service fails during a query whose search returned at
\* least one fragment, no exception leaves query: the query goes on to respond, and
\* the response carries the retrieved fragment texts as sources, the confidence of
\* the search distances, and an answer that starts with the apology and names the
\* failure.
C2_GenerationFailureDegrades ==
    llm_error # "none" =>
        /\ Len(search_results.documents) >= 1
        /\ qpc \in {"RESPOND", "done"}
        /\ error = "none"
        /\ answer = <<ApologyPrefix, llm_error>>
        /\ qpc = "done" =>
              /\ response.answer = <<ApologyPrefix, llm_error>>
              /\ response.sources = search_results.documents
              /\ response.confidence = CalculateConfidence(search_results.distances)

\* a query has returned a response although the generative service failed
C2_Witness ==
    /\ qpc = "done"
    /\ llm_error # "none"
    /\ Len(response.sources) >= 1
    /\ response.confidence > 0
    /\ Head(response.answer) = ApologyPrefix

\* C3: the sources of every returned response are exactly the fragment texts the
\* search returned, in the same order, whether generation succeeded or failed; the
\* context block lists the same texts in the same order under the labels 1, 2, ...
C3_SourcesAreSearchResults ==
    /\ qpc = "done" =>
          /\ Len(response.sources) = Len(search_results.documents)
          /\ \A i \in 1..Len(search_results.documents) :
                response.sources[i] = search_results.documents[i]
    /\ "BUILD_CONTEXT" \in Range(trace) =>
          /\ Len(context) = Len(search_results.documents)
          /\ \A i \in 1..Len(context) :
                context[i] = <<"[Source ", i, "]", search_results.documents[i]>>

\* a response with two different sources, in the order of the search
C3_Witness ==
    /\ qpc = "done"
    /\ Len(response.sources) = 2
    /\ response.sources[1] # response.sources[2]
    /\ search_results.distances[1] < search_results.distances[2]

LegalTraces ==
    {<<"EMBED_QUERY", "SEARCH", "EMPTY_RESULT", "RESPOND">>,
     <<"EMBED_QUERY", "SEARCH", "BUILD_CONTEXT", "SYNTHESIZE", "RESPOND">>}
Stages == {"EMBED_QUERY", "SEARCH", "EMPTY_RESULT", "BUILD_CONTEXT", "SYNTHESIZE", "RESPOND"}

\* C4: the stages a query has executed are always a prefix of EMBED_QUERY, SEARCH,
\* EMPTY_RESULT, RESPOND or of EMBED_QUERY, SEARCH, BUILD_CONTEXT, SYNTHESIZE,
\* RESPOND, the stage about to run extends that prefix, a returned query has run one
\* of the two sequences whole, and the BUILD_CONTEXT branch is taken exactly on a
\* non-empty search result.
C4_StageOrder ==
    /\ \E t \in LegalTraces : IsPrefix(trace, t)
    /\ qpc \in Stages => \E t \in LegalTraces : IsPrefix(Append(trace, qpc), t)
    /\ qpc = "done" => trace \in LegalTraces
    /\ qpc = "failed" => trace \in {<<"EMBED_QUERY">>, <<"EMBED_QUERY", "SEARCH">>}
    /\ qpc = "idle" => trace = <<>>
    /\ "BUILD_CONTEXT" \in Range(trace) \/ qpc = "BUILD_CONTEXT" =>
          search_results.documents # <<>>
    /\ "EMPTY_RESULT" \in Range(trace) \/ qpc = "EMPTY_RESULT" =>
          search_results.documents = <<>>

\* a query has run the whole generation branch
C4_Witness ==
    /\ qpc = "done"
    /\ trace = <<"EMBED_QUERY", "SEARCH", "BUILD_CONTEXT", "SYNTHESIZE", "RESPOND">>
    /\ llm_error = "none"

BuildInProgress == bpc \in {"CLEAR_CREATE", "EMBED_BATCH", "ADD_DOCUMENTS"}
NewGeneration == AddDocuments(<<>>, chunks, EmbedBatch([i \in 1..Len(chunks) |-> chunks[i].text]))

\* C5: a rebuild replaces the collection atomically: build_index adds only to a
\* cleared collection, and from the start of a build on, also after a build that
\* failed, the collection holds either the complete old generation or the complete
\* new one.
C5_RebuildAtomic ==
    /\ bpc = "ADD_DOCUMENTS" => store = <<>>
    /\ (BuildInProgress \/ bpc \in {"CLEAR_DELETE", "failed"}) =>
          (store = oldStore \/ store = NewGeneration)

\* C6: no search executes between the start of clear and the end of add_documents
\* of a build.
C6_BuildExclusive ==
    [][trace' = Append(trace, "SEARCH") => ~BuildInProgress]_vars

\* C7: a step of query, whatever its outcome, leaves the entries of the collection
\* and its count as they were; the entries change only in a step of build_index.
C7_QueryLeavesIndex ==
    /\ [][(trace' # trace \/ qpc' # qpc) =>
            (store' = store /\ Count(store') = Count(store))]_vars
    /\ [][store' # store => bpc' # bpc]_vars

\* queries have returned and failed against a collection that holds entries
C7_Witness ==
    /\ store # <<>>
    /\ qpc = "failed"
    /\ error = "ChromaException"
    /\ bpc = "done"

\* C8: with top_k >= 1, a search returns at most top_k results and at most count()
\* results, and a returned response has at most top_k sources.
C8_KBounding ==
    /\ [][(trace' = Append(trace, "SEARCH") /\ qpc' # "failed" /\ top_k >= 1) =>
            /\ Len(search_results'.documents) <= top_k
            /\ Len(search_results'.documents) <= Count(store)
            /\ Len(search_results'.distances) = Len(search_results'.documents)]_vars
    /\ [](qpc = "done" /\ top_k >= 1 => Len(response.sources) <= top_k)

\* a search cut to top_k results in a collection that holds more
C8_Witness ==
    /\ qpc = "BUILD_CONTEXT"
    /\ top_k >= 1
    /\ Len(search_results.documents) = top_k
    /\ Count(store) > top_k

\* C9: a search with k <= 0 fails with InvalidArgument and the collection is not
\* queried.
C9_NonPositiveKRejected ==
    (top_k <= 0 /\ "SEARCH" \in Range(trace)) =>
        /\ qpc = "failed"
        /\ error = "InvalidArgument"

\* C10: a query with an empty question fails with InvalidArgument before any stage
\* runs and produces no response.
C10_EmptyQuestionRejected ==
    (question = EmptyQuestion /\ qpc # "idle") =>
        /\ trace = <<>>
        /\ response = NoResponse
        /\ qpc # "EMBED_QUERY" => (qpc = "failed" /\ error = "InvalidArgument")


----------------------------------------------------------------------------
(* The vector store's operations (SpecStore) *)

SameSearches(a, b) ==
    \A q \in Questions, k \in 1..MaxTopK :
        VectorStoreSearch(a, EmbedText(q), k) = VectorStoreSearch(b, EmbedText(q), k)

RepeatedAdd ==
    /\ lastOp.op = "add"
    /\ lastOp.batch # <<>>
    /\ prevBatch = [batch |-> lastOp.batch]

\* C11: adding the batch of entries that the operation before it added leaves
\* the entry count and every search result as they were after the first add
C11_UpsertIdempotent ==
    RepeatedAdd =>
        /\ lastOp.ok
        /\ Count(store) = Count(storeBefore)
        /\ store = storeBefore
        /\ SameSearches(store, storeBefore)

C11_Witness ==
    /\ RepeatedAdd
    /\ lastOp.ok
    /\ Len(lastOp.batch) = MaxChunks
    /\ Count(store) = MaxChunks

EntriesOf(coll, id) == {j \in 1..Len(coll) : coll[j].id = id}

\* C12: after a successful add every id of the batch is stored exactly once and
\* carries the text, vector and metadata of the batch, the other ids are as before
C12_AddReplacesById ==
    (lastOp.op = "add" /\ lastOp.ok) =>
        /\ \A i \in 1..Len(lastOp.batch) :
              /\ Cardinality(EntriesOf(store, lastOp.batch[i].chunk_id)) = 1
              /\ \A j \in EntriesOf(store, lastOp.batch[i].chunk_id) :
                    /\ store[j].document = lastOp.batch[i].text
                    /\ store[j].embedding = EmbedText(lastOp.batch[i].text)
        /\ \A j \in 1..Len(storeBefore) :
              (\A i \in 1..Len(lastOp.batch) : lastOp.batch[i].chunk_id # storeBefore[j].id)
                  => \E jj \in 1..Len(store) : store[jj] = storeBefore[j]

\* C13: clear always succeeds and leaves an empty collection, every search on
\* it returns nothing, and the operations after it find a usable collection
C13_ClearEmpties ==
    /\ lastOp.op = "clear" =>
          /\ lastOp.ok
          /\ handleLive
          /\ collExists
          /\ Count(store) = 0
          /\ \A q \in Questions, k \in 1..MaxTopK :
                VectorStoreSearch(store, EmbedText(q), k).documents = <<>>
    /\ lastOp.op = "search" => lastOp.ok
    /\ (lastOp.op = "add" /\ lastOp.batch # <<>>) => lastOp.ok
    /\ StoreReady => handleLive

C13_Witness ==
    /\ lastOp.op = "clear"
    /\ Count(storeBefore) = MaxChunks
    /\ Count(store) = 0


----------------------------------------------------------------------------
(* The confidence score (SpecScore, SpecScorePair, Spec) *)

\* n * clamp(1 - mean(distances), 0.0, 1.0) in hundredths, n the list's length
ClampedTimesLen(distances) ==
    Max(0, Min(100 * Len(distances), 100 * Len(distances) - Sum(distances)))

NearestHundredth(c, distances) ==
    /\ c \in 0..100
    /\ 2 * Abs(Len(distances) * c - ClampedTimesLen(distances)) <= Len(distances)

\* C14: the confidence of the empty list is 0.0, of a non-empty list a hundredth
\* nearest to clamp(1 - mean(distances), 0.0, 1.0)
C14_ConfidenceFormula ==
    fpc = "returned" =>
        IF input = <<>> THEN output = 0 ELSE NearestHundredth(output, input)

C14_Witness ==
    /\ fpc = "returned"
    /\ Len(input) = MaxDistances
    /\ ClampedTimesLen(input) % Len(input) # 0
    /\ output \in 1..99

\* C15: the confidence of every response query returns is within 0.0 .. 1.0
C15_ConfidenceBounded ==
    qpc = "done" => response.confidence \in 0..100

C15_Witness ==
    /\ qpc = "done"
    /\ search_results # NoResults
    /\ search_results.distances # <<>>
    /\ Sum(search_results.distances) > 100 * Len(search_results.distances)
    /\ response.confidence = 0

\* mean(a) < mean(b), both non-empty
MeanLess(a, b) == Sum(a) * Len(b) < Sum(b) * Len(a)

\* C16: of two non-empty distance lists the one with the smaller mean distance
\* gets a confidence at least as high as the other's
C16_ConfidenceMonotonic ==
    (fpc = "returned" /\ MeanLess(input[1], input[2])) => output[1] >= output[2]

C16_Witness ==
    /\ fpc = "returned"
    /\ MeanLess(input[1], input[2])
    /\ Len(input[1]) # Len(input[2])
    /\ output[1] > output[2]
    /\ output[2] > 0


----------------------------------------------------------------------------
(* Fragments and their labels (SpecChunk, SpecLabel) *)

\* C17: every fragment's chunk_index is its 0-based position and lies below
\* total_chunks, total_chunks is the number of fragments, and no two fragments
\* have the same chunk_id
C17_FragmentPositions ==
    fpc = "returned" =>
        /\ Len(output) = Len(input)
        /\ \A p \in 1..Len(output) :
              /\ output[p].chunk_index = p - 1
              /\ 0 <= output[p].chunk_index
              /\ output[p].chunk_index < output[p].total_chunks
              /\ output[p].total_chunks = Len(output)
        /\ Cardinality({output[p].chunk_id : p \in 1..Len(output)}) = Len(output)

C17_Witness ==
    /\ fpc = "returned"
    /\ Len(output) > 9999
    /\ output[Len(output)].chunk_index = Len(output) - 1

\* the keyword occurs in the text, letter case ignored
Occurs(keyword, text) ==
    \E off \in 0..(Len(text) - Len(keyword)) :
        \A k \in 1..Len(keyword) : LowerChar(text[off + k]) = LowerChar(keyword[k])

\* the rules in their fixed order
LabelRules ==
    <<[keywords |-> {Keywords.home_loan, Keywords.housing_loan}, label |-> "Home Loan"],
      [keywords |-> {Keywords.car_loan, Keywords.vehicle_loan}, label |-> "Vehicle Loan"],
      [keywords |-> {Keywords.personal_loan}, label |-> "Personal Loan"],
      [keywords |-> {Keywords.education_loan}, label |-> "Education Loan"],
      [keywords |-> {Keywords.gold_loan}, label |-> "Gold Loan"],
      [keywords |-> {Keywords.agriculture, Keywords.kisan}, label |-> "Agriculture Loan"],
      [keywords |-> {Keywords.msme, Keywords.business}, label |-> "MSME Loan"],
      [keywords |-> {Keywords.interest_rate}, label |-> "Interest Rates"]>>

MatchingRules(text) ==
    {r \in 1..Len(LabelRules) : \E kw \in LabelRules[r].keywords : Occurs(kw, text)}

\* C18: the label is the one of the first rule that matches, and General
\* exactly when no rule matches
C18_FirstMatchWins ==
    fpc = "returned" =>
        LET matching == MatchingRules(input)
        IN  /\ matching = {} <=> output = "General"
            /\ matching # {} =>
                  \E r \in matching :
                      /\ \A other \in matching : r <= other
                      /\ output = LabelRules[r].label

C18_Witness ==
    /\ fpc = "returned"
    /\ MatchingRules(input) = {1, 3}
    /\ Head(input) = "P"
    /\ output = "Home Loan"


----------------------------------------------------------------------------
(* The consolidated document (SpecConsolidate) *)

Succeeded(rec) == "success" \in DOMAIN rec /\ rec.success = TRUE
TypeOfRecord(rec) == IF "loan_type" \in DOMAIN rec THEN rec.loan_type ELSE "Other Loans"

\* the part mentions the i-th record: its name, its url or one of its lines
Mentions(part, i) ==
    \/ part.kind = "h3" /\ part.loan_name = LoanName(i)
    \/ part.kind = "source" /\ part.url = LoanUrl(i)
    \/ /\ part.kind = "content"
       /\ \E l \in 1..Len(part.content) :
             part.content[l] \in {InfoLine(i), HtmlInfoLine(i)}

SectionsOf(doc) ==
    LET IsSection(part) == part.kind = "h2"
    IN  SelectSeq(doc, IsSection)

\* the parts between the section of loan type t and the next section
SectionBody(doc, t) ==
    LET start == CHOOSE p \in 1..Len(doc) : doc[p] = [kind |-> "h2", loan_type |-> t]
        later == {q \in (start + 1)..Len(doc) : doc[q].kind = "h2"}
        stop == IF later = {} THEN Len(doc) + 1
                ELSE CHOOSE q \in later : \A o \in later : q <= o
    IN  SubSeq(doc, start + 1, stop - 1)

\* the parts the records of loan type t should give, in input order
ExpectedBody(recs, t) ==
    LET Shown(rec) ==
            /\ Succeeded(rec)
            /\ TypeOfRecord(rec) = t
            /\ CleanedContent(rec) # <<>>
        shown == SelectSeq(recs, Shown)
    IN  Concat([k \in 1..Len(shown) |->
                  <<[kind |-> "h3", loan_name |-> shown[k].loan_name],
                    [kind |-> "content", content |-> CleanedContent(shown[k])],
                    [kind |-> "source", url |-> shown[k].url],
                    [kind |-> "rule"]>>])

RankOf(t) == CHOOSE k \in 1..Len(LoanTypeOrder) : LoanTypeOrder[k] = t

\* C19: no part of the document mentions a record without success = true, the
\* sections are those of the loan types with a successful record, in sorted
\* order, and each holds its successful records with content, in input order
C19_FailuresExcluded ==
    fpc = "returned" =>
        LET sections == SectionsOf(output)
        IN  /\ \A i \in 1..Len(input), p \in 1..Len(output) :
                  ~Succeeded(input[i]) => ~Mentions(output[p], i)
            /\ {sections[k].loan_type : k \in 1..Len(sections)}
                  = {TypeOfRecord(input[i]) : i \in {j \in 1..Len(input) : Succeeded(input[j])}}
            /\ \A k \in 1..Len(sections), l \in 1..Len(sections) :
                  k < l => RankOf(sections[k].loan_type) < RankOf(sections[l].loan_type)
            /\ \A k \in 1..Len(sections) :
                  SectionBody(output, sections[k].loan_type)
                      = ExpectedBody(input, sections[k].loan_type)

C19_Witness ==
    /\ fpc = "returned"
    /\ Len(input) = MaxRecords
    /\ ~Succeeded(input[1])
    /\ TypeOfRecord(input[1]) = "Home Loan"
    /\ Succeeded(input[MaxRecords])
    /\ TypeOfRecord(input[MaxRecords]) = "Personal Loan"
    /\ Len(SectionsOf(output)) = 1
    /\ \E p \in 1..Len(output) : Mentions(output[p], MaxRecords)


----------------------------------------------------------------------------
(* Termination of query (SpecLive) *)

QueryStarted == qpc \notin {"idle", "done", "failed"}
QueryFinished == qpc \in {"done", "failed"}

\* C20: every query that has started eventually returns a response or fails
C20_QueryFinishes == QueryStarted ~> QueryFinished


----------------------------------------------------------------------------
(* The retry loop of the scraper (SpecRequest) *)

FailedFetches == {i \in 1..Len(fetches) : fetches[i] # "ok"}
BackOffs == {i \in 1..Len(sleeps) : sleeps[i].after = "failure"}

RequestBounded ==
    /\ Len(fetches) <= max_retries
    /\ \A i \in 1..Len(fetches) : fetches[i] = "ok" => i = Len(fetches) /\ rpc = "returned"
    /\ rpc = "returned" =>
          /\ result \in {ReturnedNone} \cup {ReturnedResponse(k) : k \in 0..(max_retries - 1)}
          /\ result = ReturnedNone =>
                /\ Len(fetches) = max_retries
                /\ Cardinality(FailedFetches) = max_retries
                /\ Cardinality(BackOffs) = Max(0, max_retries - 1)
                /\ BackOffs = 1..Len(sleeps)
          /\ result # ReturnedNone =>
                /\ fetches[Len(fetches)] = "ok"
                /\ result = ReturnedResponse(Len(fetches) - 1)
                /\ Cardinality(BackOffs) = Len(fetches) - 1
    /\ \A i \in BackOffs : sleeps[i].wait_time = 2 * i /\ i <= Cardinality(FailedFetches)

\* C21: the run makes at most max_retries fetches, none after a successful one,
\* returns that response or None after max_retries failures, backs off between
\* failed attempts and not after the last, and always returns
C21_RetriesBounded == []RequestBounded /\ <>(rpc = "returned")

C21_Witness ==
    /\ rpc = "returned"
    /\ max_retries = MaxRetries
    /\ result = ReturnedNone
    /\ Len(fetches) = MaxRetries
    /\ Cardinality(BackOffs) = MaxRetries - 1


----------------------------------------------------------------------------
(* The order of the pipeline's commands (SpecCli) *)

GuardsHold ==
    /\ (lastCmd.cmd = "process" /\ ~lastCmd.before.scraped_data) =>
          lastCmd.wrote = {} /\ fs = lastCmd.before
    /\ (lastCmd.cmd = "build-index" /\ lastCmd.before.chunks = NoFile) =>
          lastCmd.indexOps = <<>> /\ fs = lastCmd.before
    /\ (lastCmd.cmd \in {"query", "demo"} /\ (~apiKey \/ ~lastCmd.before.chroma_db)) =>
          /\ ~lastCmd.pipeline
          /\ lastCmd.asked = <<>>
          /\ fs = lastCmd.before
    /\ (lastCmd.cmd # "none" /\ lastCmd.indexOps # <<>>) => lastCmd.before.chunks # NoFile
    /\ (fs.chroma_db \/ collExists \/ store # <<>>) => fs.chunks # NoFile

\* C22: a command that finds its input missing does nothing (process writes no
\* file, build-index neither clears nor adds, query and demo make no pipeline
\* and ask nothing), and the index changes only when a chunk manifest exists
C22_PipelineOrder ==
    /\ []GuardsHold
    /\ [][(store' # store \/ collExists' # collExists \/ fs'.chroma_db # fs.chroma_db)
              => fs.chunks # NoFile]_vars

C22_Witness ==
    /\ lastCmd.cmd = "query"
    /\ apiKey
    /\ ~lastCmd.before.chroma_db
    /\ lastCmd.before.chunks # NoFile
    /\ ~lastCmd.pipeline
    /\ ~collExists


----------------------------------------------------------------------------
(* The message history of the chat (SpecChat) *)

Alternates(ms) ==
    /\ Len(ms) % 2 = 0
    /\ \A i \in 1..Len(ms) :
          ms[i].role = IF i % 2 = 1 THEN "user" ELSE "assistant"

\* C23: whenever no run is in progress the history is user, assistant, user,
\* assistant, ... : every user message is followed by one assistant message
C23_HistoryAlternates == upc = "idle" => Alternates(messages)

====
